---- MODULE Spec2Model ----
(***************************************************************************)
(* Model of the stock-analysis MVP: the serverless request router          *)
(* (lambda_function.py: lambda_handler, get_stock_price_yfinance_v8,       *)
(* search_ticker) and the offline batch fetcher (scripts/fetch_prices.py:  *)
(* fetch_data).                                                            *)
(*                                                                         *)
(* Representation.                                                         *)
(*  - Tickers and the 'ticker' / 'tickers' parameters are sequences of     *)
(*    one-character strings, so endswith, strip and split are computed.    *)
(*  - Python None / JSON null / NaN is the empty tuple <<>>, a present     *)
(*    value v is the one-element tuple <<v>>.                              *)
(*  - Prices are non-negative integers; year_change_pct is kept in         *)
(*    hundredths of a percent (round(x, 2) * 100), rounded half-to-even.   *)
(*  - Timestamps are hours since the epoch; a formatted time is <<day>>    *)
(*    for '%Y-%m-%d' and <<day, hour>> for '%Y-%m-%d %H:%M'.               *)
(*  - The localized error messages are written in ASCII.                   *)
(***************************************************************************)
EXTENDS Integers, Sequences, FiniteSets, TLC

\* ------------------------------------------------------------------ bounds
MaxParamLen == 5
MaxTickerLen == 3
MaxLen == 3
MaxPrice == 3

\* ----------------------------------------------------------- value helpers
None == <<>>
Some(v) == <<v>>
EmptyDict == [x \in {} |-> x]
Get(d, k, default) == IF k \in DOMAIN d THEN d[k] ELSE default
SeqsUpTo(S, n) == UNION {[1..k -> S] : k \in 0..n}
Range(s) == {s[i] : i \in 1..Len(s)}

\* ---------------------------------------------------------- str operations
Chars == {"7", ".", "T", ",", " "}
Suffix == <<".", "T">>
endswith(s, suf) ==
    /\ Len(s) >= Len(suf)
    /\ SubSeq(s, Len(s) - Len(suf) + 1, Len(s)) = suf

RECURSIVE lstrip(_)
lstrip(s) == IF s # <<>> /\ Head(s) = " " THEN lstrip(Tail(s)) ELSE s
RECURSIVE rstrip(_)
rstrip(s) ==
    IF s # <<>> /\ s[Len(s)] = " " THEN rstrip(SubSeq(s, 1, Len(s) - 1)) ELSE s
strip(s) == rstrip(lstrip(s))

RECURSIVE split(_, _)
split(s, sep) ==
    IF \E i \in 1..Len(s) : s[i] = sep
    THEN LET i == CHOOSE j \in 1..Len(s) :
                      s[j] = sep /\ \A k \in 1..(j - 1) : s[k] # sep
         IN  <<SubSeq(s, 1, i - 1)>> \o split(SubSeq(s, i + 1, Len(s)), sep)
    ELSE <<s>>

RECURSIVE join(_, _)
join(sep, list) ==
    IF list = <<>> THEN ""
    ELSE IF Len(list) = 1 THEN list[1]
    ELSE list[1] \o sep \o join(sep, Tail(list))

\* ---------------------------------------------------- ticker normalization
NormalizeNoCheck(t) == t \o Suffix
Normalize(t) == IF ~endswith(t, Suffix) THEN t \o Suffix ELSE t

\* -------------------------------------------------------------- intervals
valid_intervals == <<"15m", "30m", "60m", "1d", "1wk", "1mo">>
intraday_intervals == <<"15m", "30m", "60m">>
IntervalAcceptedLoose(interval) == TRUE
IntervalAccepted(interval) == interval \in Range(valid_intervals)
InvalidIntervalMessage ==
    "invalid interval. valid values: " \o join(", ", valid_intervals)

\* ------------------------------------------------- series summary numerics
RECURSIVE SeqMax(_)
SeqMax(s) ==
    IF Len(s) = 1 THEN s[1]
    ELSE LET m == SeqMax(Tail(s)) IN IF s[1] > m THEN s[1] ELSE m
RECURSIVE SeqMin(_)
SeqMin(s) ==
    IF Len(s) = 1 THEN s[1]
    ELSE LET m == SeqMin(Tail(s)) IN IF s[1] < m THEN s[1] ELSE m

\* round(n / d, 0) for d > 0, ties to even, as Python's round does
RoundHalfEven(n, d) ==
    LET q == n \div d
        r == n - q * d
    IN  IF 2 * r < d THEN q
        ELSE IF 2 * r > d THEN q + 1
        ELSE IF q % 2 = 0 THEN q ELSE q + 1

\* round(((last - first) / first) * 100, 2), in hundredths of a percent
PctChangeNoPercent(first, last) == RoundHalfEven((last - first) * 100, first)
PctChange(first, last) == RoundHalfEven((last - first) * 10000, first)

\* --------------------------------------------- get_stock_price_yfinance_v8
JstOffsetHours == 9
FormatTime(ts, interval) ==
    LET jst == ts + JstOffsetHours
    IN  IF interval \in Range(intraday_intervals)
        THEN <<jst \div 24, jst % 24>>
        ELSE <<jst \div 24>>

SkipIndexOffByOne(timestamps, prices, i) == i >= Len(prices) \/ prices[i] = None
SkipIndex(timestamps, prices, i) == i > Len(prices) \/ prices[i] = None

RECURSIVE BuildChartData(_, _, _, _)
BuildChartData(timestamps, prices, interval, i) ==
    IF i > Len(timestamps) THEN <<>>
    ELSE IF SkipIndex(timestamps, prices, i)
    THEN BuildChartData(timestamps, prices, interval, i + 1)
    ELSE <<[time |-> FormatTime(timestamps[i], interval), value |-> prices[i][1]]>>
         \o BuildChartData(timestamps, prices, interval, i + 1)

YearChangePct(valid_prices) ==
    IF Len(valid_prices) > 1
    THEN PctChange(valid_prices[1], valid_prices[Len(valid_prices)])
    ELSE 0

\* the expression at line 98 raises ZeroDivisionError
RaisesZeroDivision(valid_prices) == Len(valid_prices) > 1 /\ valid_prices[1] = 0

ErrorKinds == {"http_error", "url_error", "error"}

get_stock_price_yfinance_v8(ticker, interval, resp) ==
    IF resp.kind \in ErrorKinds THEN None
    ELSE IF resp.chart_result = None THEN None
    ELSE LET result == resp.chart_result[1] IN
    IF result = None \/ Len(result[1]) = 0 THEN None
    ELSE LET quote == result[1][1]
             short_name == Get(quote, "shortName", ticker)
             timestamps == Get(quote, "timestamp", <<>>)
             prices == Get(quote, "close", <<>>)
         IN
    IF timestamps = <<>> \/ prices = <<>> THEN None
    ELSE LET chart_data == BuildChartData(timestamps, prices, interval, 1)
             valid_prices == [k \in 1..Len(chart_data) |-> chart_data[k].value]
         IN
    IF valid_prices = <<>> THEN None
    ELSE IF RaisesZeroDivision(valid_prices) THEN None
    ELSE Some([data |-> chart_data,
               current_price |-> valid_prices[Len(valid_prices)],
               year_high |-> SeqMax(valid_prices),
               year_low |-> SeqMin(valid_prices),
               year_change_pct |-> YearChangePct(valid_prices),
               data_points |-> Len(chart_data),
               short_name |-> short_name])

\* ------------------------------------------------------------ search_ticker
search_ticker(query, sresp) ==
    IF sresp.kind \in ErrorKinds THEN <<>>
    ELSE LET quotes == Get(sresp.data, "quotes", <<>>)
             kept == SelectSeq(quotes, LAMBDA q : endswith(Get(q, "symbol", <<>>), Suffix))
         IN  [k \in 1..Len(kept) |->
                [symbol |-> kept[k]["symbol"],
                 name |-> Get(kept[k], "shortname",
                              Get(kept[k], "longname", kept[k]["symbol"])),
                 type |-> Get(kept[k], "typeDisp", "Stock"),
                 exchange |-> Get(kept[k], "exchange", "")]]

\* =================================================================== state
VARIABLES
    pc,             \* lambda_handler: "idle", "batch_loop", "done"
    event,          \* the inbound event of the invocation
    interval,       \* lambda_handler local: the validated interval
    TICKERS,        \* lambda_handler local: insertion-ordered dict, as a sequence of [ticker, name]
    result,         \* lambda_handler local: the batch result under construction
    processed,      \* number of TICKERS entries the batch loop has handled
    calls,          \* upstream calls issued so far, in order, with whether a series came back
    response,       \* None, or Some of the returned envelope
    sIn, sOut, sPc, \* series reduction under test: input, output, position
    opc,            \* fetch_data: "ticker", "retry", "after_retry", "summary", "exit"
    oi,             \* fetch_data: index of the current ticker in OFFLINE_TICKERS
    attempt,        \* fetch_data: value of the retry loop variable
    hist,           \* fetch_data local: None or Some(history frame)
    ostocks,        \* fetch_data: result["stocks"]
    failed_tickers, \* fetch_data: failed_tickers
    osummary,       \* fetch_data: result["summary"], None until computed
    timeline,       \* fetch_data: history calls and sleeps of the current ticker, in order
    exit_code       \* None, or Some of the process exit code

routerVars == <<pc, event, interval, TICKERS, result, processed, calls, response>>
seriesVars == <<sIn, sOut, sPc>>
offlineVars == <<opc, oi, attempt, hist, ostocks, failed_tickers, osummary, timeline, exit_code>>
vars == <<routerVars, seriesVars, offlineVars>>

\* ============================================================ lambda_handler
\* ------------------------------------------------------------------ inputs
RequestIntervals == Range(valid_intervals) \cup {"", "2d"}
Str(s) == [i \in 1..Len(s) |-> s[i]]

OptParam(k, V) == {EmptyDict} \cup {k :> v : v \in V}

QueryDicts ==
    \* search: q absent / empty / present, interval irrelevant to the route
    {("action" :> "search") @@ q @@ i :
        q \in OptParam("q", {<<>>, <<"7">>}),
        i \in OptParam("interval", {"1d", "2d"})}
    \cup
    \* get_stock: every ticker string against every interval
    {("action" :> "get_stock") @@ t @@ i :
        t \in OptParam("ticker", SeqsUpTo(Chars, MaxTickerLen)),
        i \in OptParam("interval", RequestIntervals)}
    \cup
    \* default route: every action value other than the two above, every interval
    {a @@ t @@ i :
        a \in OptParam("action", {"get_stocks", "list"}),
        t \in OptParam("tickers", {<<>>, <<"7">>, <<",">>}),
        i \in OptParam("interval", RequestIntervals)}
    \cup
    \* default route: every 'tickers' string
    {t @@ i :
        t \in OptParam("tickers", SeqsUpTo(Chars, MaxParamLen)),
        i \in OptParam("interval", {"2d"})}

Events ==
    {[httpMethod |-> Some(m), requestContextMethod |-> None,
      queryStringParameters |-> Some(d)] : m \in {"GET", "OPTIONS"}, d \in QueryDicts}
    \cup
    {[httpMethod |-> h, requestContextMethod |-> r, queryStringParameters |-> None] :
        h \in {None, Some("GET"), Some("OPTIONS")},
        r \in {None, Some("GET"), Some("OPTIONS")}}

\* provider answers to the chart request the router's fetches may receive
Quote(ts, close) == ("timestamp" :> ts) @@ ("close" :> close)
JsonChart(res) == [kind |-> "json", chart_result |-> res]
RouterCharts ==
    {[kind |-> "http_error", chart_result |-> None],
     JsonChart(None),
     JsonChart(Some(Some(<<Quote(<<0>>, <<Some(1)>>)>>))),
     JsonChart(Some(Some(<<Quote(<<0, 20>>, <<Some(1), Some(3)>>)>>))),
     JsonChart(Some(Some(<<Quote(<<0, 20>>, <<Some(0), Some(3)>>)>>)))}

SearchAnswers ==
    {[kind |-> "error", data |-> EmptyDict],
     [kind |-> "json", data |-> EmptyDict],
     [kind |-> "json", data |-> ("quotes" :>
         <<("symbol" :> <<"7">>), ("symbol" :> <<"7", ".", "T">>) @@ ("longname" :> "Seven")>>)]}

\* ---------------------------------------------------------------- routing
HttpMethod(ev) ==
    IF ev.httpMethod # None THEN ev.httpMethod ELSE ev.requestContextMethod
IsOptions(ev) == HttpMethod(ev) = Some("OPTIONS")
QueryParams(ev) ==
    IF ev.queryStringParameters = None \/ ev.queryStringParameters = Some(EmptyDict)
    THEN EmptyDict
    ELSE ev.queryStringParameters[1]
ActionOf(ev) == Get(QueryParams(ev), "action", "get_stocks")
IntervalOf(ev) == Get(QueryParams(ev), "interval", "1d")

ErrorResponse(status, message) ==
    Some([statusCode |-> status, body |-> [error |-> message]])

\* the dict built at lines 276-281: later duplicates keep the first position
RECURSIVE BuildTickersNoDedup(_)
BuildTickersNoDedup(ticker_list) ==
    IF ticker_list = <<>> THEN <<>>
    ELSE LET t == Normalize(ticker_list[Len(ticker_list)])
         IN  BuildTickersNoDedup(SubSeq(ticker_list, 1, Len(ticker_list) - 1))
             \o <<[ticker |-> t, name |-> t]>>
RECURSIVE BuildTickers(_)
BuildTickers(ticker_list) ==
    IF ticker_list = <<>> THEN <<>>
    ELSE LET before == BuildTickers(SubSeq(ticker_list, 1, Len(ticker_list) - 1))
             t == Normalize(ticker_list[Len(ticker_list)])
         IN  IF \E k \in 1..Len(before) : before[k].ticker = t
             THEN before
             ELSE before \o <<[ticker |-> t, name |-> t]>>

TickerList(tickers_param) ==
    LET parts == split(tickers_param, ",")
        stripped == [k \in 1..Len(parts) |-> strip(parts[k])]
    IN  SelectSeq(stripped, LAMBDA t : t # <<>>)

DefaultTickers ==
    <<[ticker |-> Str(<<"7", "2", "0", "3", ".", "T">>), name |-> "Toyota"],
      [ticker |-> Str(<<"6", "7", "5", "8", ".", "T">>), name |-> "Sony Group"],
      [ticker |-> Str(<<"9", "9", "8", "4", ".", "T">>), name |-> "SoftBank Group"],
      [ticker |-> Str(<<"6", "8", "6", "1", ".", "T">>), name |-> "Keyence"],
      [ticker |-> Str(<<"8", "3", "0", "6", ".", "T">>), name |-> "Mitsubishi UFJ"]>>

TickersFor(tickers_param) ==
    IF tickers_param # <<>> THEN BuildTickers(TickerList(tickers_param)) ELSE DefaultTickers

BatchStatusAlways200(successful) == 200
BatchStatus(successful) == IF successful > 0 THEN 200 ELSE 500

Respond(r) ==
    /\ response' = r
    /\ pc' = "done"

\* lines 172-180
Options ==
    /\ pc = "idle"
    /\ \E ev \in Events :
        /\ IsOptions(ev)
        /\ event' = Some(ev)
        /\ Respond(Some([statusCode |-> 200, body |-> ""]))
    /\ UNCHANGED <<interval, TICKERS, result, processed, calls, seriesVars, offlineVars>>

\* lines 187-194
SearchMissingQuery ==
    /\ pc = "idle"
    /\ \E ev \in Events :
        /\ ~IsOptions(ev)
        /\ ActionOf(ev) = "search"
        /\ Get(QueryParams(ev), "q", <<>>) = <<>>
        /\ event' = Some(ev)
        /\ Respond(ErrorResponse(400, "search query required"))
    /\ UNCHANGED <<interval, TICKERS, result, processed, calls, seriesVars, offlineVars>>

\* lines 196-209
Search ==
    /\ pc = "idle"
    /\ \E ev \in Events, sresp \in SearchAnswers :
        /\ ~IsOptions(ev)
        /\ ActionOf(ev) = "search"
        /\ LET search_query == Get(QueryParams(ev), "q", <<>>) IN
            /\ search_query # <<>>
            /\ event' = Some(ev)
            /\ calls' = Append(calls, [fn |-> "search_ticker", arg |-> search_query,
                                       series |-> FALSE])
            /\ Respond(Some([statusCode |-> 200,
                             body |-> [results |-> search_ticker(search_query, sresp),
                                       query |-> search_query]]))
    /\ UNCHANGED <<interval, TICKERS, result, processed, seriesVars, offlineVars>>

\* lines 212-223
GetStockInvalidInterval ==
    /\ pc = "idle"
    /\ \E ev \in Events :
        /\ ~IsOptions(ev)
        /\ ActionOf(ev) = "get_stock"
        /\ ~IntervalAccepted(IntervalOf(ev))
        /\ event' = Some(ev)
        /\ Respond(ErrorResponse(400, InvalidIntervalMessage))
    /\ UNCHANGED <<interval, TICKERS, result, processed, calls, seriesVars, offlineVars>>

\* lines 225-230
GetStockMissingTicker ==
    /\ pc = "idle"
    /\ \E ev \in Events :
        /\ ~IsOptions(ev)
        /\ ActionOf(ev) = "get_stock"
        /\ IntervalAccepted(IntervalOf(ev))
        /\ Get(QueryParams(ev), "ticker", <<>>) = <<>>
        /\ event' = Some(ev)
        /\ interval' = Some(IntervalOf(ev))
        /\ Respond(ErrorResponse(400, "ticker required"))
    /\ UNCHANGED <<TICKERS, result, processed, calls, seriesVars, offlineVars>>

\* lines 232-258
GetStock ==
    /\ pc = "idle"
    /\ \E ev \in Events, resp \in RouterCharts :
        /\ ~IsOptions(ev)
        /\ ActionOf(ev) = "get_stock"
        /\ IntervalAccepted(IntervalOf(ev))
        /\ Get(QueryParams(ev), "ticker", <<>>) # <<>>
        /\ LET ticker == Normalize(Get(QueryParams(ev), "ticker", <<>>))
               stock_data == get_stock_price_yfinance_v8(ticker, IntervalOf(ev), resp)
           IN
            /\ event' = Some(ev)
            /\ interval' = Some(IntervalOf(ev))
            /\ calls' = Append(calls, [fn |-> "get_stock_price_yfinance_v8", arg |-> ticker,
                                       series |-> stock_data # None])
            /\ IF stock_data # None
               THEN Respond(Some([statusCode |-> 200,
                                  body |-> [ticker |-> ticker,
                                            name |-> stock_data[1].short_name,
                                            stock |-> stock_data[1]]]))
               ELSE Respond(Some([statusCode |-> 404,
                                  body |-> [error |-> "no data", ticker |-> ticker]]))
    /\ UNCHANGED <<TICKERS, result, processed, seriesVars, offlineVars>>

\* lines 262-272
BatchInvalidInterval ==
    /\ pc = "idle"
    /\ \E ev \in Events :
        /\ ~IsOptions(ev)
        /\ ActionOf(ev) \notin {"search", "get_stock"}
        /\ ~IntervalAccepted(IntervalOf(ev))
        /\ event' = Some(ev)
        /\ Respond(ErrorResponse(400, InvalidIntervalMessage))
    /\ UNCHANGED <<interval, TICKERS, result, processed, calls, seriesVars, offlineVars>>

\* lines 274-305
BatchStart ==
    /\ pc = "idle"
    /\ \E ev \in Events :
        /\ ~IsOptions(ev)
        /\ ActionOf(ev) \notin {"search", "get_stock"}
        /\ IntervalAccepted(IntervalOf(ev))
        /\ event' = Some(ev)
        /\ interval' = Some(IntervalOf(ev))
        /\ TICKERS' = TickersFor(Get(QueryParams(ev), "tickers", <<>>))
    /\ result' = [stocks |-> EmptyDict,
                  summary |-> [total_tickers |-> Len(TICKERS'),
                               successful |-> 0,
                               failed |-> 0,
                               failed_tickers |-> <<>>]]
    /\ processed' = 0
    /\ pc' = "batch_loop"
    /\ UNCHANGED <<calls, response, seriesVars, offlineVars>>

\* lines 308-321, one iteration
BatchFetch ==
    /\ pc = "batch_loop"
    /\ processed < Len(TICKERS)
    /\ \E resp \in RouterCharts :
        LET ticker == TICKERS[processed + 1].ticker
            stock_data == get_stock_price_yfinance_v8(ticker, interval[1], resp)
        IN
        /\ calls' = Append(calls, [fn |-> "get_stock_price_yfinance_v8", arg |-> ticker,
                                   series |-> stock_data # None])
        /\ IF stock_data # None
           THEN result' = [result EXCEPT
                    !.stocks = (ticker :> [name |-> stock_data[1].short_name,
                                           ticker |-> ticker,
                                           stock |-> stock_data[1]]) @@ @,
                    !.summary.successful = @ + 1]
           ELSE result' = [result EXCEPT
                    !.summary.failed = @ + 1,
                    !.summary.failed_tickers = Append(@, ticker)]
    /\ processed' = processed + 1
    /\ UNCHANGED <<pc, event, interval, TICKERS, response, seriesVars, offlineVars>>

\* lines 323-340
BatchReturn ==
    /\ pc = "batch_loop"
    /\ processed = Len(TICKERS)
    /\ Respond(Some([statusCode |-> BatchStatus(result.summary.successful),
                     body |-> result,
                     success_count |-> result.summary.successful,
                     failed_count |-> result.summary.failed]))
    /\ UNCHANGED <<event, interval, TICKERS, result, processed, calls, seriesVars, offlineVars>>

RouterInit ==
    /\ pc = "idle"
    /\ event = None
    /\ interval = None
    /\ TICKERS = <<>>
    /\ result = [stocks |-> EmptyDict,
                 summary |-> [total_tickers |-> 0, successful |-> 0,
                              failed |-> 0, failed_tickers |-> <<>>]]
    /\ processed = 0
    /\ calls = <<>>
    /\ response = None
RouterOff ==
    /\ pc = "off"
    /\ event = None
    /\ interval = None
    /\ TICKERS = <<>>
    /\ result = [stocks |-> EmptyDict,
                 summary |-> [total_tickers |-> 0, successful |-> 0,
                              failed |-> 0, failed_tickers |-> <<>>]]
    /\ processed = 0
    /\ calls = <<>>
    /\ response = None

RouterNext ==
    \/ Options
    \/ SearchMissingQuery
    \/ Search
    \/ GetStockInvalidInterval
    \/ GetStockMissingTicker
    \/ GetStock
    \/ BatchInvalidInterval
    \/ BatchStart
    \/ BatchFetch
    \/ BatchReturn

\* ============================================ series reductions, in isolation
\* ------------------------------------------------------------------ inputs
JsonNumbers == {None} \cup {Some(p) : p \in 0..MaxPrice}
\* provider timestamps: ascending, 15 hours apart
Timestamps(n) == [i \in 1..n |-> 15 * (i - 1)]
ChartQuotes ==
    {Quote(Timestamps(n), close) : n \in 0..MaxLen, close \in SeqsUpTo(JsonNumbers, MaxLen)}
    \cup {EmptyDict,
          ("timestamp" :> Timestamps(1)),
          ("close" :> <<Some(1)>>),
          Quote(Timestamps(1), <<Some(1)>>) @@ ("shortName" :> "Seven")}
ChartAnswers ==
    {[kind |-> k, chart_result |-> None] : k \in ErrorKinds}
    \cup {JsonChart(None), JsonChart(Some(None)), JsonChart(Some(Some(<<>>)))}
    \cup {JsonChart(Some(Some(<<q>>))) : q \in ChartQuotes}

\* a history frame: the Close column (NaN is None), or a frame without that column
Frame(rows) == [rows |-> rows, has_close |-> TRUE]
FrameWithoutClose == [rows |-> <<None>>, has_close |-> FALSE]
Frames == {Frame(rows) : rows \in SeqsUpTo(JsonNumbers, MaxLen)} \cup {FrameWithoutClose}
FrameEmpty(frame) == frame.rows = <<>>

\* -------------------------------------------------- fetch_data, lines 41-86
\* line 50: a row is skipped when Close is falsy (0) or NaN
SkipRow(close) == close = None \/ close[1] = 0

RECURSIVE OfflineChartData(_, _)
OfflineChartData(rows, i) ==
    IF i > Len(rows) THEN <<>>
    ELSE IF SkipRow(rows[i]) THEN OfflineChartData(rows, i + 1)
    ELSE <<[time |-> <<i>>, value |-> rows[i][1]]>> \o OfflineChartData(rows, i + 1)

OfflineYearChangePct(prices) == PctChange(prices[1], prices[Len(prices)])

\* None when the ticker ends in failed_tickers, Some(entry) when it ends in stocks
ProcessHistory(ticker, name, h) ==
    IF h = None \/ FrameEmpty(h[1]) THEN None
    ELSE IF ~h[1].has_close THEN None
    ELSE LET chart_data == OfflineChartData(h[1].rows, 1)
             prices == [k \in 1..Len(chart_data) |-> chart_data[k].value]
         IN
    IF chart_data = <<>> THEN None
    \* line 68 raises ZeroDivisionError, caught at line 83
    ELSE IF prices[1] = 0 THEN None
    ELSE Some([name |-> name,
               ticker |-> ticker,
               data |-> chart_data,
               current_price |-> prices[Len(prices)],
               year_high |-> SeqMax(prices),
               year_low |-> SeqMin(prices),
               year_change_pct |-> OfflineYearChangePct(prices),
               data_points |-> Len(chart_data)])

SeriesTicker == <<"7", ".", "T">>
SeriesInputs ==
    {[fn |-> "get_stock_price_yfinance_v8", interval |-> i, resp |-> r] :
        i \in Range(valid_intervals), r \in ChartAnswers}
    \cup {[fn |-> "fetch_data", h |-> Some(f)] : f \in Frames}

SeriesInit ==
    /\ sIn \in SeriesInputs
    /\ sOut = None
    /\ sPc = "ready"
SeriesOff ==
    /\ sIn = None
    /\ sOut = None
    /\ sPc = "off"

ApplyQuoteFetcher ==
    /\ sPc = "ready"
    /\ sIn.fn = "get_stock_price_yfinance_v8"
    /\ sOut' = get_stock_price_yfinance_v8(SeriesTicker, sIn.interval, sIn.resp)
    /\ sPc' = "returned"
    /\ UNCHANGED <<sIn, routerVars, offlineVars>>

ApplyOfflineReduction ==
    /\ sPc = "ready"
    /\ sIn.fn = "fetch_data"
    /\ sOut' = ProcessHistory(SeriesTicker, "Seven", sIn.h)
    /\ sPc' = "returned"
    /\ UNCHANGED <<sIn, routerVars, offlineVars>>

SeriesNext == ApplyQuoteFetcher \/ ApplyOfflineReduction

\* ================================================================ fetch_data
OFFLINE_TICKERS == DefaultTickers
MaxAttempts == 3

\* what one stock.history(period="1y") call may do
ScriptFrames ==
    {Frame(<<>>), Frame(<<None>>), Frame(<<Some(0)>>), Frame(<<Some(1)>>),
     Frame(<<Some(1), None, Some(3)>>), FrameWithoutClose}

ExitCodeAlwaysZero(success) == 0
ExitCodeFor(success) == IF success THEN 0 ELSE 1

\* lines 25-31
OStartTicker ==
    /\ opc = "ticker"
    /\ oi < Len(OFFLINE_TICKERS)
    /\ hist' = None
    /\ attempt' = 0
    /\ timeline' = <<>>
    /\ opc' = "retry"
    /\ UNCHANGED <<oi, ostocks, failed_tickers, osummary, exit_code, routerVars, seriesVars>>

LeaveRetry(next_attempt, broke) ==
    opc' = IF broke \/ next_attempt >= MaxAttempts THEN "after_retry" ELSE "retry"

\* lines 32-39, one iteration in which history raises
OAttemptRaises ==
    /\ opc = "retry"
    /\ attempt < MaxAttempts
    /\ timeline' = timeline \o <<"history_raised", "sleep">>
    /\ attempt' = attempt + 1
    /\ LeaveRetry(attempt + 1, FALSE)
    /\ UNCHANGED <<hist, oi, ostocks, failed_tickers, osummary, exit_code, routerVars, seriesVars>>

\* lines 32-36, one iteration in which history returns a frame
OAttemptReturns ==
    /\ opc = "retry"
    /\ attempt < MaxAttempts
    /\ \E f \in ScriptFrames :
        /\ hist' = Some(f)
        /\ timeline' = Append(timeline, IF FrameEmpty(f) THEN "history_empty" ELSE "history_ok")
        /\ LeaveRetry(attempt + 1, ~FrameEmpty(f))
    /\ attempt' = attempt + 1
    /\ UNCHANGED <<oi, ostocks, failed_tickers, osummary, exit_code, routerVars, seriesVars>>

\* lines 41-86
OProcess ==
    /\ opc = "after_retry"
    /\ LET t == OFFLINE_TICKERS[oi + 1]
           entry == ProcessHistory(t.ticker, t.name, hist)
       IN  IF entry = None
           THEN /\ failed_tickers' = Append(failed_tickers, t.ticker)
                /\ UNCHANGED ostocks
           ELSE /\ ostocks' = (t.ticker :> entry[1]) @@ ostocks
                /\ UNCHANGED failed_tickers
    /\ oi' = oi + 1
    /\ opc' = IF oi + 1 = Len(OFFLINE_TICKERS) THEN "summary" ELSE "ticker"
    /\ UNCHANGED <<attempt, hist, timeline, osummary, exit_code, routerVars, seriesVars>>

\* lines 88-116
OFinish ==
    /\ opc = "summary"
    /\ osummary' = Some([total_tickers |-> Len(OFFLINE_TICKERS),
                         successful |-> Cardinality(DOMAIN ostocks),
                         failed |-> Len(failed_tickers),
                         failed_tickers |-> failed_tickers])
    /\ exit_code' = Some(ExitCodeFor(Cardinality(DOMAIN ostocks) > 0))
    /\ opc' = "exited"
    /\ UNCHANGED <<oi, attempt, hist, ostocks, failed_tickers, timeline, routerVars, seriesVars>>

OfflineInit ==
    /\ opc = "ticker"
    /\ oi = 0
    /\ attempt = 0
    /\ hist = None
    /\ ostocks = EmptyDict
    /\ failed_tickers = <<>>
    /\ osummary = None
    /\ timeline = <<>>
    /\ exit_code = None
OfflineOff ==
    /\ opc = "off"
    /\ oi = 0
    /\ attempt = 0
    /\ hist = None
    /\ ostocks = EmptyDict
    /\ failed_tickers = <<>>
    /\ osummary = None
    /\ timeline = <<>>
    /\ exit_code = None

OfflineNext == OStartTicker \/ OAttemptRaises \/ OAttemptReturns \/ OProcess \/ OFinish

\* =========================================================== specifications
\* one invocation of lambda_handler
Init == RouterInit /\ SeriesOff /\ OfflineOff
Next == RouterNext
Spec == Init /\ [][Next]_vars

\* one application of a series reduction to one provider answer
InitSeries == RouterOff /\ SeriesInit /\ OfflineOff
NextSeries == SeriesNext
SpecSeries == InitSeries /\ [][NextSeries]_vars

\* one run of scripts/fetch_prices.py
InitOffline == RouterOff /\ SeriesOff /\ OfflineInit
NextOffline == OfflineNext
SpecOffline == InitOffline /\ [][NextOffline]_vars

\* ================================================== properties: lambda_handler
Returned == pc = "done" /\ response # None
Status == response[1].statusCode
Ev == event[1]
IsGet(ev) == HttpMethod(ev) = Some("GET")
OnBatchRoute ==
    /\ event # None
    /\ ~IsOptions(Ev)
    /\ ActionOf(Ev) \notin {"search", "get_stock"}
    /\ IntervalAccepted(IntervalOf(Ev))
OnGetStockRoute ==
    /\ event # None
    /\ ~IsOptions(Ev)
    /\ ActionOf(Ev) = "get_stock"
SomeFetchReturnedSeries == \E k \in 1..Len(calls) : calls[k].series
RejectedForInterval ==
    /\ Status = 400
    /\ response[1].body =
         [error |-> "invalid interval. valid values: 15m, 30m, 60m, 1d, 1wk, 1mo"]
\* the normalized tickers a 'tickers' parameter asks for, or the five defaults
RequestedTickers ==
    LET tickers_param == Get(QueryParams(Ev), "tickers", <<>>)
        parts == split(tickers_param, ",")
    IN  IF tickers_param = <<>>
        THEN {DefaultTickers[k].ticker : k \in 1..Len(DefaultTickers)}
        ELSE {IF endswith(strip(parts[k]), Suffix) THEN strip(parts[k])
              ELSE strip(parts[k]) \o Suffix :
                  k \in {j \in 1..Len(parts) : strip(parts[j]) # <<>>}}

\* C1: on the default batch route the returned status is 200 exactly when some
\* ticker's fetch returned a series and 500 otherwise, and a 500 body carries
\* successful = 0 and failed = total_tickers.
C1_BatchStatus ==
    (Returned /\ OnBatchRoute) =>
        /\ Status \in {200, 500}
        /\ (Status = 200) <=> SomeFetchReturnedSeries
        /\ Status = 500 =>
            /\ response[1].body.summary.successful = 0
            /\ response[1].body.summary.failed = response[1].body.summary.total_tickers
C1_Witness ==
    /\ Returned /\ OnBatchRoute
    /\ Status = 500
    /\ "tickers" \in DOMAIN QueryParams(Ev)
    /\ response[1].body.summary.total_tickers = 2
    /\ response[1].body.summary.failed = 2

\* C2: during and after the batch loop successful counts the keys of stocks,
\* failed counts failed_tickers, no ticker is in both, successful + failed is the
\* number of tickers processed; at return the two add up to total_tickers and each
\* requested ticker, normalized, is in exactly one of the two collections, also
\* when the 'tickers' parameter repeats a ticker.
C2_BatchAccounting ==
    (pc \in {"batch_loop", "done"} /\ OnBatchRoute) =>
        LET sm == result.summary
            keys == DOMAIN result.stocks
            failedSet == Range(sm.failed_tickers)
        IN  /\ sm.successful = Cardinality(keys)
            /\ sm.failed = Len(sm.failed_tickers)
            /\ keys \cap failedSet = {}
            /\ sm.successful + sm.failed = processed
            /\ Returned =>
                /\ sm.successful + sm.failed = sm.total_tickers
                /\ response[1].body = result
                /\ keys \cup failedSet = RequestedTickers
                /\ \A t \in RequestedTickers :
                    IF t \in keys
                    THEN t \notin failedSet
                    ELSE Cardinality({k \in 1..Len(sm.failed_tickers) :
                                        sm.failed_tickers[k] = t}) = 1
C2_Witness ==
    /\ Returned /\ OnBatchRoute
    /\ Len(TickerList(Get(QueryParams(Ev), "tickers", <<>>))) = 3
    /\ Cardinality(RequestedTickers) = 2
    /\ result.summary.successful = 1
    /\ result.summary.failed = 1

\* C3 as claimed: for any GET request, a valid or absent interval is never the
\* reason for a rejection and any other interval yields the 400 that lists the six
\* accepted values.
C3_AnyGetRequest ==
    (Returned /\ event # None /\ IsGet(Ev)) =>
        IF IntervalAccepted(IntervalOf(Ev))
        THEN ~RejectedForInterval
        ELSE RejectedForInterval
\* C3 as amended: the same for any GET request whose action is not 'search' (the
\* get_stock route and the default batch route); the search route never reads
\* 'interval'.
C3_IntervalValidation ==
    (Returned /\ event # None /\ IsGet(Ev)) =>
        IF ActionOf(Ev) = "search" \/ IntervalOf(Ev) \in
               {"15m", "30m", "60m", "1d", "1wk", "1mo"}
        THEN ~RejectedForInterval
        ELSE RejectedForInterval
C3_Witness ==
    /\ Returned /\ event # None /\ IsGet(Ev)
    /\ ActionOf(Ev) = "get_stock"
    /\ "ticker" \notin DOMAIN QueryParams(Ev)
    /\ IntervalOf(Ev) = "2d"
    /\ RejectedForInterval

\* C4: a 400 response is returned before any upstream call, and every non-OPTIONS
\* request that is not answered 400 has made at least one upstream call.
C4_OnlyValidationSkipsUpstream ==
    (Returned /\ event # None) =>
        /\ Status = 400 => calls = <<>>
        /\ (~IsOptions(Ev) /\ Status # 400) => calls # <<>>

\* C8: normalization appends '.T' to a ticker that does not end with it and leaves
\* one that does unchanged, on the get_stock route and for each 'tickers' entry;
\* every ticker passed to the fetch ends with '.T' and normalizing it again
\* changes nothing.
NormalizedFrom(raw, t) ==
    /\ endswith(raw, Suffix) => t = raw
    /\ ~endswith(raw, Suffix) => t = raw \o Suffix
C8_Normalization ==
    /\ \A k \in 1..Len(calls) :
        calls[k].fn = "get_stock_price_yfinance_v8" =>
            /\ endswith(calls[k].arg, Suffix)
            /\ Normalize(calls[k].arg) = calls[k].arg
    /\ (Returned /\ OnGetStockRoute /\ calls # <<>>) =>
        NormalizedFrom(QueryParams(Ev)["ticker"], calls[1].arg)
    /\ (pc \in {"batch_loop", "done"} /\ OnBatchRoute) =>
        LET entries == TickerList(Get(QueryParams(Ev), "tickers", <<>>))
        IN  /\ \A k \in 1..Len(TICKERS) : endswith(TICKERS[k].ticker, Suffix)
            /\ entries # <<>> =>
                /\ \A k \in 1..Len(TICKERS) :
                    \E j \in 1..Len(entries) : NormalizedFrom(entries[j], TICKERS[k].ticker)
                /\ \A j \in 1..Len(entries) :
                    \E k \in 1..Len(TICKERS) : NormalizedFrom(entries[j], TICKERS[k].ticker)
C8_Witness ==
    /\ Returned /\ OnGetStockRoute
    /\ calls # <<>>
    /\ QueryParams(Ev)["ticker"] = <<"7", ".", "T">>
    /\ calls[1].arg = <<"7", ".", "T">>

\* ============================================ properties: series reductions
QuoteFetcherReturned == sPc = "returned" /\ sIn.fn = "get_stock_price_yfinance_v8"
OfflineReduced == sPc = "returned" /\ sIn.fn = "fetch_data"
\* chart.result[0] is present and carries both arrays
WellShaped ==
    /\ sIn.resp.kind = "json"
    /\ sIn.resp.chart_result # None
    /\ sIn.resp.chart_result[1] # None
    /\ sIn.resp.chart_result[1][1] # <<>>
    /\ {"timestamp", "close"} \subseteq DOMAIN sIn.resp.chart_result[1][1][1]
InTimestamps == sIn.resp.chart_result[1][1][1]["timestamp"]
InPrices == sIn.resp.chart_result[1][1][1]["close"]
\* indices with an in-range, non-null close
ValidIndices ==
    {i \in 1..Len(InTimestamps) : i <= Len(InPrices) /\ InPrices[i] # None}
\* the k-th valid index in provider order
NthOf(S, k) == CHOOSE i \in S : Cardinality({j \in S : j < i}) = k - 1
\* rows of a history frame that are neither NaN nor 0
ValidRows ==
    {i \in 1..Len(sIn.h[1].rows) : sIn.h[1].rows[i] # None /\ sIn.h[1].rows[i][1] # 0}
\* pct hundredths of a percent is ((last - first) / first) * 100 rounded to 2 decimals
IsRoundedPct(pct, first, last) ==
    LET err == pct * first - (last - first) * 10000
    IN  2 * (IF err < 0 THEN -err ELSE err) <= first

\* C5: for a well-shaped provider response the fetch returns None exactly when
\* there is no valid point, and otherwise returns the summary with the points,
\* whatever the prices are.
C5_AbsenceIffNoValidPoint ==
    (QuoteFetcherReturned /\ WellShaped) =>
        /\ (sOut = None) <=> (ValidIndices = {})
        /\ sOut # None => sOut[1].data_points = Cardinality(ValidIndices)

\* C6: a returned point sequence has exactly one point per index with an in-range,
\* non-null close, in provider order; data_points is their number, current_price
\* the last valid value, year_high and year_low the largest and smallest valid
\* value.
C6_ValidPointsOnly ==
    (QuoteFetcherReturned /\ sOut # None) =>
        LET V == ValidIndices
            n == Cardinality(V)
            out == sOut[1]
        IN  /\ WellShaped
            /\ Len(out.data) = n
            /\ out.data_points = n
            /\ \A k \in 1..n : out.data[k].value = InPrices[NthOf(V, k)][1]
            /\ \A k \in 1..n :
                out.data[k].time = FormatTime(InTimestamps[NthOf(V, k)], sIn.interval)
            /\ out.current_price = InPrices[NthOf(V, n)][1]
            /\ \A i \in V : out.year_low <= InPrices[i][1] /\ InPrices[i][1] <= out.year_high
            /\ \E i \in V : out.year_high = InPrices[i][1]
            /\ \E i \in V : out.year_low = InPrices[i][1]
C6_Witness ==
    /\ QuoteFetcherReturned /\ sOut # None
    /\ Len(InPrices) = 3
    /\ Cardinality({i \in 1..3 : InPrices[i] = None}) = 1
    /\ sOut[1].data_points = 2
    /\ sOut[1].year_low < sOut[1].year_high

\* C7: every summary produced, by the quote fetcher or by the offline reduction,
\* has year_change_pct 0 when there is at most one valid point and otherwise
\* ((last - first) / first) * 100 rounded to 2 decimals, first and last being the
\* first and last valid prices.
C7_YearChangePct ==
    /\ (QuoteFetcherReturned /\ sOut # None) =>
        LET V == ValidIndices
            n == Cardinality(V)
        IN  IF n <= 1 THEN sOut[1].year_change_pct = 0
            ELSE IsRoundedPct(sOut[1].year_change_pct,
                              InPrices[NthOf(V, 1)][1], InPrices[NthOf(V, n)][1])
    /\ (OfflineReduced /\ sOut # None) =>
        LET V == ValidRows
            n == Cardinality(V)
            rows == sIn.h[1].rows
        IN  IF n <= 1 THEN sOut[1].year_change_pct = 0
            ELSE IsRoundedPct(sOut[1].year_change_pct,
                              rows[NthOf(V, 1)][1], rows[NthOf(V, n)][1])
C7_Witness ==
    /\ QuoteFetcherReturned /\ sOut # None
    /\ Len(sOut[1].data) = 3
    /\ sOut[1].data[1].value = 3
    /\ sOut[1].current_price = 2
    /\ sOut[1].year_change_pct = -3333

\* ====================================================== properties: fetch_data
Exited == opc = "exited"
OfflineTickerSet == {OFFLINE_TICKERS[k].ticker : k \in 1..Len(OFFLINE_TICKERS)}
HistoryCalls == {k \in 1..Len(timeline) : timeline[k] # "sleep"}

\* C9: the run exits 0 exactly when some ticker ended in stocks with a non-empty
\* series and 1 when none did; at the end each of the five tickers is a key of
\* stocks or in failed_tickers, never both, and successful + failed is
\* total_tickers.
C9_ExitCode ==
    Exited =>
        /\ exit_code \in {Some(0), Some(1)}
        /\ (exit_code = Some(0)) <=>
              \E t \in OfflineTickerSet : t \in DOMAIN ostocks /\ ostocks[t].data # <<>>
        /\ \A t \in OfflineTickerSet :
              (t \in DOMAIN ostocks) <=> (t \notin Range(failed_tickers))
        /\ DOMAIN ostocks \subseteq OfflineTickerSet
        /\ osummary[1].successful + osummary[1].failed = osummary[1].total_tickers
        /\ osummary[1].total_tickers = 5
C9_Witness ==
    /\ Exited
    /\ exit_code = Some(0)
    /\ osummary[1].successful = 1
    /\ osummary[1].failed = 4

\* C10: per ticker the history retrieval is called at most 3 times, nothing is
\* called after a call that returned a non-empty history, the fixed delay is
\* waited between every two consecutive calls whether the earlier one raised or
\* returned an empty history, and the ticker is recorded as failed exactly when no
\* call returned a non-empty history.
C10_RetryDiscipline ==
    /\ Cardinality(HistoryCalls) <= 3
    /\ \A k \in HistoryCalls : timeline[k] = "history_ok" => k = Len(timeline)
    /\ (opc = "retry" /\ timeline # <<>>) => timeline[Len(timeline)] = "sleep"
    /\ (opc \in {"ticker", "summary"} /\ oi > 0) =>
          (OFFLINE_TICKERS[oi].ticker \in Range(failed_tickers))
              <=> ("history_ok" \notin Range(timeline))

====
